---- MODULE Spec2Model ----
(***************************************************************************)
(* A model of the log-structured key/value store of src/src/kv.rs:         *)
(* KvStore::open / set / get / remove / compact, the recovery scan         *)
(* build_index_from_log, and the directory of generation files they work   *)
(* on.                                                                     *)
(*                                                                         *)
(* A file is a sequence of bytes.  A byte of the model is one token of the *)
(* JSON text serde_json writes: "S" stands for {"Set":{"key":" , "R" for   *)
(* {"Remove":{"key":" , "V" for ","value":" , "E" for "}} , a key is one   *)
(* token and a value is a sequence of character tokens.  Offsets and       *)
(* lengths count tokens, starting at 0 as in the code.                     *)
(*                                                                         *)
(* BufReaderWithPos.pos is not part of the state: the code uses it only to *)
(* skip a seek to the position it is already at (kv.rs:163), and every     *)
(* read is made at the offset of the index entry.                          *)
(***************************************************************************)
EXTENDS Integers, Sequences, FiniteSets, TLC

\* ------------------------------------------------------------- bounds
\* Number of calls of a run: set, remove and release of the handle, the
\* calls that crash or fail included (open and get are not counted).
MaxOps == 4
\* Number of crashes and failed calls of a run.
MaxFaults == 1

\* kv.rs:13
COMPACTION_THREDHOLD == 1048576

\* The keys, in the order BTreeMap iterates them (kv.rs:160).
KeyOrder == <<"a", "b">>
Keys == {KeyOrder[i] : i \in 1..Len(KeyOrder)}
\* The values: strings as sequences of characters (the empty string included).
Values == {<<>>, <<"x", "y">>}
ValueChars == {"x", "y"}
\* The thresholds a run is made with: 1 is exceeded by any dead record, 4 is
\* the length of the shortest record, so that the counter can be equal to the
\* threshold, and the last one is never exceeded.
Thresholds == {1, 4, COMPACTION_THREDHOLD}

VARIABLES
    disk,       \* the directory: generation number -> bytes of {gen}.log
    kv,         \* the KvStore struct (kv.rs:19-37), meaningful when status = "open"
    status,     \* "closed" | "open" | "open_failed" | "panicked"
    threshold,  \* the compaction threshold of this run
    ref,        \* the reference map: key -> value, of the keys present
    infKv,      \* the same calls made on a store that never compacts:
    infDisk,    \*   its struct and its directory
    last,       \* what the last step was and what it returned
    ncompact,   \* number of compactions completed
    ops,        \* number of calls made
    faults,     \* number of crashes and failed calls
    made        \* the generation files created: by the last step, and before it

vars == <<disk, kv, status, threshold, ref, infKv, infDisk, last, ncompact, ops, faults,
          made>>

\* ------------------------------------------------------------ helpers
Min(S) == CHOOSE x \in S : \A y \in S : x <= y
Max(S) == CHOOSE x \in S : \A y \in S : x >= y

\* bytes[from, to) with 0-based offsets, cut at the end of the file
Slice(bytes, from, to) ==
    LET hi == IF to < Len(bytes) THEN to ELSE Len(bytes)
    IN  IF from >= hi THEN <<>> ELSE SubSeq(bytes, from + 1, hi)

\* a map without one key / with one key set
MapRemove(m, k) == [x \in DOMAIN m \ {k} |-> m[x]]
MapPut(m, k, v) == [x \in DOMAIN m \cup {k} |-> IF x = k THEN v ELSE m[x]]
EmptyMap == [x \in {} |-> 0]

\* ------------------------------------------------------------ Command
Command_set(key, value) == [type |-> "Set", key |-> key, value |-> value]
Command_remove(key) == [type |-> "Remove", key |-> key]

\* serde_json::to_writer: the bytes of one record
to_writer(cmd) ==
    IF cmd.type = "Set"
    THEN <<"S", cmd.key, "V">> \o cmd.value \o <<"E">>
    ELSE <<"R", cmd.key, "E">>

\* offset of the first byte at or after pos that is no value character
RECURSIVE ValueEnd(_, _)
ValueEnd(bytes, pos) ==
    IF pos < Len(bytes) /\ bytes[pos + 1] \in ValueChars
    THEN ValueEnd(bytes, pos + 1)
    ELSE pos

\* serde_json's deserializer on the bytes from offset pos: one record and the
\* offset past it, or an error (unexpected byte, or the file ends inside it).
DecodeErr == [ok |-> FALSE, cmd |-> Command_remove(""), end |-> 0]
Decode(bytes, pos) ==
    LET at(i) == IF pos + i < Len(bytes) THEN bytes[pos + i + 1] ELSE "EOF"
    IN  IF at(0) = "S" /\ at(1) \in Keys /\ at(2) = "V"
        THEN LET e == ValueEnd(bytes, pos + 3)
             IN  IF e < Len(bytes) /\ bytes[e + 1] = "E"
                 THEN [ok |-> TRUE,
                       cmd |-> Command_set(at(1), Slice(bytes, pos + 3, e)),
                       end |-> e + 1]
                 ELSE DecodeErr
        ELSE IF at(0) = "R" /\ at(1) \in Keys /\ at(2) = "E"
        THEN [ok |-> TRUE, cmd |-> Command_remove(at(1)), end |-> pos + 3]
        ELSE DecodeErr

\* CommandPos::from((gen, start..end))
CommandPos(gen, start, end) == [gen |-> gen, pos |-> start, len |-> end - start]

\* ------------------------------------------------- positioned writer
\* BufWriterWithPos::new on the file of generation gen: pos = seek(End(0)).
\* buf holds the bytes written and not yet flushed to the file.
BufWriterWithPos_new(d, gen) == [gen |-> gen, pos |-> Len(d[gen]), buf |-> <<>>]
\* BufWriterWithPos::write of all of bytes
write(w, bytes) == [w EXCEPT !.pos = @ + Len(bytes), !.buf = @ \o bytes]
\* BufWriterWithPos::flush: the buffer goes to the end of the file (append mode)
flush_disk(w, d) == IF w.gen \in DOMAIN d
                    THEN [d EXCEPT ![w.gen] = @ \o w.buf]
                    ELSE d
flush_writer(w) == [w EXCEPT !.buf = <<>>]

\* --------------------------------------------------------- directory
\* sorted_gen_list as the ascending sequence of the generations of d
RECURSIVE SortedSeq(_)
SortedSeq(S) == IF S = {} THEN <<>> ELSE <<Min(S)>> \o SortedSeq(S \ {Min(S)})
sorted_gen_list(d) == SortedSeq(DOMAIN d)

\* create_active_log_file: create the file if absent (create + append never
\* truncates), a writer positioned at its end, and a reader in readers.
create_active_log_file(d, gen, readers) ==
    LET d2 == IF gen \in DOMAIN d THEN d ELSE MapPut(d, gen, <<>>)
    IN  [disk |-> d2,
         readers |-> readers \cup {gen},
         writer |-> BufWriterWithPos_new(d2, gen)]

\* what a call of create_active_log_file for gen on directory d is for the
\* directory: the number, and whether no file had it (else the open with
\* create + append takes the file that is there)
Creation(d, gen) == [gen |-> gen, fresh |-> gen \notin DOMAIN d]

\* ---------------------------------------------------------- recovery
\* build_index_from_log: the scan of one file from offset pos on
RECURSIVE ScanLog(_, _, _, _, _)
ScanLog(gen, bytes, pos, index, canbe) ==
    IF pos >= Len(bytes)
    THEN [ok |-> TRUE, index |-> index, canbe_compacted |-> canbe]
    ELSE LET r == Decode(bytes, pos)
         IN  IF ~r.ok
             THEN [ok |-> FALSE, index |-> index, canbe_compacted |-> canbe]
             ELSE IF r.cmd.type = "Set"
             THEN ScanLog(gen, bytes, r.end,
                          MapPut(index, r.cmd.key, CommandPos(gen, pos, r.end)),
                          IF r.cmd.key \in DOMAIN index
                          THEN canbe + index[r.cmd.key].len ELSE canbe)
             ELSE ScanLog(gen, bytes, r.end,
                          MapRemove(index, r.cmd.key),
                          (IF r.cmd.key \in DOMAIN index
                           THEN canbe + index[r.cmd.key].len ELSE canbe)
                          + (r.end - pos))

\* the scan with Remove records skipped (the arm of kv.rs:246-254 doing nothing)
RECURSIVE ScanLogKeepRemoved(_, _, _, _, _)
ScanLogKeepRemoved(gen, bytes, pos, index, canbe) ==
    IF pos >= Len(bytes)
    THEN [ok |-> TRUE, index |-> index, canbe_compacted |-> canbe]
    ELSE LET r == Decode(bytes, pos)
         IN  IF ~r.ok
             THEN [ok |-> FALSE, index |-> index, canbe_compacted |-> canbe]
             ELSE ScanLogKeepRemoved(gen, bytes, r.end,
                      IF r.cmd.type = "Set"
                      THEN MapPut(index, r.cmd.key, CommandPos(gen, pos, r.end))
                      ELSE index,
                      canbe)
build_index_keep_removed(gen, bytes, index) == ScanLogKeepRemoved(gen, bytes, 0, index, 0)

build_index_from_log(gen, bytes, index) == ScanLog(gen, bytes, 0, index, 0)

\* the loop of open over gen_list[i..]: the index after all files, or an error
RECURSIVE OpenScan(_, _, _, _)
OpenScan(d, gen_list, i, index) ==
    IF i > Len(gen_list) THEN [ok |-> TRUE, index |-> index]
    ELSE LET r == build_index_from_log(gen_list[i], d[gen_list[i]], index)
         IN  IF r.ok THEN OpenScan(d, gen_list, i + 1, r.index)
             ELSE [ok |-> FALSE, index |-> index]

NoKv == [current_gen |-> 0, readers |-> {}, writer |-> [gen |-> 0, pos |-> 0, buf |-> <<>>],
         index |-> EmptyMap, canbe_compacted |-> 0]

\* open taking the greatest generation of the directory as the active one
open_on_last_gen(d) ==
    LET gen_list == sorted_gen_list(d)
        scan == OpenScan(d, gen_list, 1, EmptyMap)
        current_gen == IF gen_list = <<>> THEN 1 ELSE gen_list[Len(gen_list)]
        c == create_active_log_file(d, current_gen, DOMAIN d)
    IN  IF ~scan.ok THEN [ok |-> FALSE, kv |-> NoKv, disk |-> d, created |-> <<>>]
        ELSE [ok |-> TRUE,
              kv |-> [current_gen |-> current_gen,
                      readers |-> c.readers,
                      writer |-> c.writer,
                      index |-> scan.index,
                      canbe_compacted |-> 0],
              disk |-> c.disk,
              created |-> <<Creation(d, current_gen)>>]

\* KvStore::open on directory d
open(d) ==
    LET gen_list == sorted_gen_list(d)
        scan == OpenScan(d, gen_list, 1, EmptyMap)
        current_gen == (IF gen_list = <<>> THEN 0 ELSE gen_list[Len(gen_list)]) + 1
        c == create_active_log_file(d, current_gen, DOMAIN d)
    IN  IF ~scan.ok THEN [ok |-> FALSE, kv |-> NoKv, disk |-> d, created |-> <<>>]
        ELSE [ok |-> TRUE,
              kv |-> [current_gen |-> current_gen,
                      readers |-> c.readers,
                      writer |-> c.writer,
                      index |-> scan.index,
                      canbe_compacted |-> 0],
              disk |-> c.disk,
              created |-> <<Creation(d, current_gen)>>]

\* ------------------------------------------------------------- get
Some(value) == [tag |-> "Some", value |-> value]
None == [tag |-> "None", value |-> <<>>]
Err(what) == [tag |-> what, value |-> <<>>]

\* KvStore::get: the result of the call (reading moves no state of the model)
get(s, d, key) ==
    IF key \in DOMAIN s.index
    THEN LET cmd_pos == s.index[key]
         IN  IF cmd_pos.gen \notin s.readers THEN Err("Panic")
             ELSE IF cmd_pos.gen \notin DOMAIN d THEN Err("Io")
             ELSE LET bytes == Slice(d[cmd_pos.gen], cmd_pos.pos, cmd_pos.pos + cmd_pos.len)
                      r == Decode(bytes, 0)
                  IN  IF ~r.ok \/ r.end # Len(bytes) THEN Err("Decode")
                      ELSE IF r.cmd.type = "Set" THEN Some(r.cmd.value)
                      ELSE Err("UnexpectedCommandType")
    ELSE None

\* ------------------------------------------------------- compaction
\* The state of a compaction in progress: the struct, the directory, the
\* compaction writer, the running offset new_pos and whether a reader lookup
\* panicked.

\* compact_new_active with current_gen going up by 1 only, to the number of
\* the compaction file
compact_new_active_bump_one(s, d) ==
    LET current_gen == s.current_gen + 1
        c == create_active_log_file(d, current_gen, s.readers)
    IN  [kv |-> [s EXCEPT !.current_gen = current_gen,
                          !.writer = c.writer,
                          !.readers = c.readers],
         disk |-> flush_disk(s.writer, c.disk)]

\* kv.rs:150-152: bump current_gen by 2 and replace the writer by one on the new
\* active file; the replaced writer is dropped, which flushes its buffer.
compact_new_active(s, d) ==
    LET current_gen == s.current_gen + 2
        c == create_active_log_file(d, current_gen, s.readers)
    IN  [kv |-> [s EXCEPT !.current_gen = current_gen,
                          !.writer = c.writer,
                          !.readers = c.readers],
         disk |-> flush_disk(s.writer, c.disk)]

\* compact_new_compaction without the reader of the compaction file
compact_new_compaction_no_reader(st, cgen) ==
    LET c == create_active_log_file(st.disk, cgen, st.kv.readers)
    IN  [kv |-> st.kv,
         disk |-> c.disk,
         cw |-> c.writer,
         new_pos |-> 0,
         panic |-> FALSE]

\* compact_new_compaction with new_pos starting at 1
compact_new_compaction_from_one(st, cgen) ==
    LET c == create_active_log_file(st.disk, cgen, st.kv.readers)
    IN  [kv |-> [st.kv EXCEPT !.readers = c.readers],
         disk |-> c.disk,
         cw |-> c.writer,
         new_pos |-> 1,
         panic |-> FALSE]

\* kv.rs:154-156: the compaction file and its writer; new_pos starts at 0
compact_new_compaction(st, cgen) ==
    LET c == create_active_log_file(st.disk, cgen, st.kv.readers)
    IN  [kv |-> [st.kv EXCEPT !.readers = c.readers],
         disk |-> c.disk,
         cw |-> c.writer,
         new_pos |-> 0,
         panic |-> FALSE]

\* the keys of the index in iteration order
IndexKeys(index) == SelectSeq(KeyOrder, LAMBDA k : k \in DOMAIN index)

\* compact_copy_one without the advance of new_pos (kv.rs:170 left out)
compact_copy_one_no_advance(c, key) ==
    LET cmd_pos == c.kv.index[key]
    IN  IF cmd_pos.gen \notin c.kv.readers THEN [c EXCEPT !.panic = TRUE]
        ELSE LET bytes == Slice(c.disk[cmd_pos.gen], cmd_pos.pos, cmd_pos.pos + cmd_pos.len)
                 len == Len(bytes)
             IN  [c EXCEPT !.cw = write(@, bytes),
                           !.kv.index[key] = CommandPos(c.cw.gen, c.new_pos, c.new_pos + len)]

\* kv.rs:160-171: one turn of the copy loop, for key
compact_copy_one(c, key) ==
    LET cmd_pos == c.kv.index[key]
    IN  IF cmd_pos.gen \notin c.kv.readers THEN [c EXCEPT !.panic = TRUE]
        ELSE LET bytes == Slice(c.disk[cmd_pos.gen], cmd_pos.pos, cmd_pos.pos + cmd_pos.len)
                 len == Len(bytes)
             IN  [c EXCEPT !.cw = write(@, bytes),
                           !.kv.index[key] = CommandPos(c.cw.gen, c.new_pos, c.new_pos + len),
                           !.new_pos = @ + len]

\* the first n turns of the copy loop (it stops at a panic)
RECURSIVE compact_copy(_, _, _)
compact_copy(c, keys, n) ==
    IF n = 0 THEN c
    ELSE LET before == compact_copy(c, keys, n - 1)
         IN  IF before.panic THEN before ELSE compact_copy_one(before, keys[n])

\* kv.rs:172: compaction_writer.flush()
compact_flush(c) == [c EXCEPT !.disk = flush_disk(c.cw, @), !.cw = flush_writer(@)]

\* stale_gens with <= for < : the compaction file counts as stale
stale_gens_inclusive(c) == {gen \in c.kv.readers : gen <= c.cw.gen}

\* kv.rs:175
stale_gens(c) == {gen \in c.kv.readers : gen < c.cw.gen}

\* compact_remove with the readers dropped and the files left in place
compact_remove_readers_only(c, S) ==
    [c EXCEPT !.kv.readers = @ \ S]

\* kv.rs:177-180 for the generations of S: reader dropped and file deleted
compact_remove(c, S) ==
    [c EXCEPT !.kv.readers = @ \ S,
              !.disk = [g \in DOMAIN @ \ S |-> @[g]]]

\* the compaction file numbered after the new active file
compaction_gen_above_active(s) == s.current_gen + 3

\* kv.rs:150: the generation of the compaction file, from the struct at entry
compaction_gen(s) == s.current_gen + 1

\* kv.rs:152, 154: the two calls of create_active_log_file, in the order
\* compact makes them: the new active file first, the compaction file second
compact_creates(s, d) ==
    LET a == compact_new_active(s, d)
    IN  <<Creation(d, a.kv.current_gen), Creation(a.disk, compaction_gen(s))>>

\* KvStore::compact, all of it
compact(s, d) ==
    LET c1 == compact_new_compaction(compact_new_active(s, d), compaction_gen(s))
        keys == IndexKeys(c1.kv.index)
        c2 == compact_copy(c1, keys, Len(keys))
        c3 == compact_flush(c2)
        c4 == compact_remove(c3, stale_gens(c3))
    IN  IF c2.panic
        THEN [kv |-> c3.kv, disk |-> c3.disk, panic |-> TRUE,
              created |-> compact_creates(s, d)]
        ELSE [kv |-> [c4.kv EXCEPT !.canbe_compacted = 0], disk |-> c4.disk,
              panic |-> FALSE, created |-> compact_creates(s, d)]

\* ------------------------------------------------------- set, remove
\* kv.rs:78-80: the record goes to the writer
set_write(s, key, value) ==
    [s EXCEPT !.writer = write(@, to_writer(Command_set(key, value)))]

\* set_index with the entry's range starting at the start of the file
set_index_from_file_start(s, key, pos) ==
    [s EXCEPT !.index = MapPut(@, key, CommandPos(s.current_gen, 0, s.writer.pos)),
              !.canbe_compacted = IF key \in DOMAIN s.index
                                  THEN @ + s.index[key].len ELSE @]

\* kv.rs:83-93: the index entry of the record written at [pos, writer.pos)
set_index(s, key, pos) ==
    [s EXCEPT !.index = MapPut(@, key, CommandPos(s.current_gen, pos, s.writer.pos)),
              !.canbe_compacted = IF key \in DOMAIN s.index
                                  THEN @ + s.index[key].len ELSE @]

\* set compacting already when the counter is equal to the threshold
set_compact_at_threshold(s, d, key, value, thr) ==
    LET pos == s.writer.pos
        s1 == set_write(s, key, value)
        d2 == flush_disk(s1.writer, d)
        s2 == [s1 EXCEPT !.writer = flush_writer(@)]
        s3 == set_index(s2, key, pos)
    IN  IF s3.canbe_compacted >= thr
        THEN LET c == compact(s3, d2)
             IN  [kv |-> c.kv, disk |-> c.disk, panic |-> c.panic, compacted |-> TRUE,
                  created |-> c.created]
        ELSE [kv |-> s3, disk |-> d2, panic |-> FALSE, compacted |-> FALSE,
              created |-> <<>>]

\* KvStore::set with compaction threshold thr
set(s, d, key, value, thr) ==
    LET pos == s.writer.pos
        s1 == set_write(s, key, value)
        d2 == flush_disk(s1.writer, d)
        s2 == [s1 EXCEPT !.writer = flush_writer(@)]
        s3 == set_index(s2, key, pos)
    IN  IF s3.canbe_compacted > thr
        THEN LET c == compact(s3, d2)
             IN  [kv |-> c.kv, disk |-> c.disk, panic |-> c.panic, compacted |-> TRUE,
                  created |-> c.created]
        ELSE [kv |-> s3, disk |-> d2, panic |-> FALSE, compacted |-> FALSE,
              created |-> <<>>]

\* kv.rs:131-132
remove_write(s, key) ==
    [s EXCEPT !.writer = write(@, to_writer(Command_remove(key)))]

\* kv.rs:138-139
remove_index(s, key) ==
    [s EXCEPT !.index = MapRemove(@, key),
              !.canbe_compacted = @ + s.index[key].len]

\* remove that writes its record before it looks the key up
remove_write_first(s, d, key) ==
    LET s1 == remove_write(s, key)
        d2 == flush_disk(s1.writer, d)
        s2 == [s1 EXCEPT !.writer = flush_writer(@)]
    IN  IF key \in DOMAIN s.index
        THEN [ok |-> TRUE, kv |-> remove_index(s2, key), disk |-> d2]
        ELSE [ok |-> FALSE, kv |-> s2, disk |-> d2]

\* KvStore::remove
remove(s, d, key) ==
    IF key \in DOMAIN s.index
    THEN LET s1 == remove_write(s, key)
             d2 == flush_disk(s1.writer, d)
             s2 == [s1 EXCEPT !.writer = flush_writer(@)]
         IN  [ok |-> TRUE, kv |-> remove_index(s2, key), disk |-> d2]
    ELSE [ok |-> FALSE, kv |-> s, disk |-> d]

\* every key's get
GetAll(s, d) == [k \in Keys |-> get(s, d, k)]
\* what the reference map answers
RefGet(m, k) == IF k \in DOMAIN m THEN Some(m[k]) ELSE None

\* the highest number a file has been created with, the last step included
MaxUsed(m) == Max({m.used} \cup {m.new[i].gen : i \in DOMAIN m.new})
\* made after a step that made the creations new, in this order
Made(m, new) == [used |-> MaxUsed(m), new |-> new]
\* those of creations whose file is in directory d
CreatedIn(creations, d) == SelectSeq(creations, LAMBDA c : c.gen \in DOMAIN d)

\* ------------------------------------------------------------ actions
Init ==
    /\ disk = EmptyMap
    /\ kv = NoKv
    /\ status = "closed"
    /\ threshold \in Thresholds
    /\ ref = EmptyMap
    /\ infKv = NoKv
    /\ infDisk = EmptyMap
    /\ last = [op |-> "init"]
    /\ ncompact = 0
    /\ ops = 0
    /\ faults = 0
    /\ made = [used |-> 0, new |-> <<>>]

\* KvStore::open on the directory, after construction, a release or a crash
Open ==
    /\ status = "closed"
    /\ LET r == open(disk)
           i == open(infDisk)
       IN  /\ status' = IF r.ok THEN "open" ELSE "open_failed"
           /\ kv' = r.kv
           /\ disk' = r.disk
           /\ infKv' = i.kv
           /\ infDisk' = i.disk
           /\ last' = [op |-> "open", ok |-> r.ok, prev |-> last]
           /\ made' = Made(made, r.created)
    /\ UNCHANGED <<threshold, ref, ncompact, ops, faults>>

\* the handle is released: the writer is dropped, which flushes its buffer
Close ==
    /\ status = "open"
    /\ ops < MaxOps
    /\ status' = "closed"
    /\ disk' = flush_disk(kv.writer, disk)
    /\ infDisk' = flush_disk(infKv.writer, infDisk)
    /\ kv' = NoKv
    /\ infKv' = NoKv
    /\ last' = [op |-> "close", keys |-> DOMAIN kv.index, gets |-> GetAll(kv, disk)]
    /\ made' = Made(made, <<>>)
    /\ ops' = ops + 1
    /\ UNCHANGED <<threshold, ref, ncompact, faults>>

Set(key, value) ==
    /\ status = "open"
    /\ ops < MaxOps
    /\ LET r == set(kv, disk, key, value, threshold)
           i == set(infKv, infDisk, key, value, COMPACTION_THREDHOLD)
       IN  /\ kv' = r.kv
           /\ disk' = r.disk
           /\ status' = IF r.panic THEN "panicked" ELSE "open"
           /\ infKv' = i.kv
           /\ infDisk' = i.disk
           /\ last' = [op |-> "set", key |-> key, compacted |-> r.compacted,
                       files |-> DOMAIN disk]
           /\ ncompact' = IF r.compacted /\ ~r.panic THEN ncompact + 1 ELSE ncompact
           /\ made' = Made(made, r.created)
    /\ ref' = MapPut(ref, key, value)
    /\ ops' = ops + 1
    /\ UNCHANGED <<threshold, faults>>

Remove(key) ==
    /\ status = "open"
    /\ ops < MaxOps
    /\ LET r == remove(kv, disk, key)
           i == remove(infKv, infDisk, key)
       IN  /\ kv' = r.kv
           /\ disk' = r.disk
           /\ infKv' = i.kv
           /\ infDisk' = i.disk
           /\ last' = [op |-> "remove", key |-> key, ok |-> r.ok,
                       kv |-> kv, disk |-> disk]
           /\ ref' = IF r.ok THEN MapRemove(ref, key) ELSE ref
    /\ made' = Made(made, <<>>)
    /\ ops' = ops + 1
    /\ UNCHANGED <<threshold, status, ncompact, faults>>

\* KvStore::get returns one of its results and changes nothing
Get(key) ==
    /\ status = "open"
    /\ get(kv, disk, key).tag \in {"Some", "None", "Decode", "UnexpectedCommandType", "Io", "Panic"}
    /\ UNCHANGED vars

Next ==
    \/ Open
    \/ Close
    \/ \E key \in Keys, value \in Values : Set(key, value)
    \/ \E key \in Keys : Remove(key)
    \/ \E key \in Keys : Get(key)

Spec == Init /\ [][Next]_vars

\* ------------------------------------------------------------ crashes
\* The process dies inside a call.  What is left is the directory: the bytes
\* that reached the files, without those still in a writer's buffer.  Each
\* element is a place the death can happen at, with the directory it leaves.

\* d with the first m bytes of w's buffer appended to w's file
PartialFlush(w, d, m) == [d EXCEPT ![w.gen] = @ \o SubSeq(w.buf, 1, m)]

\* inside compact (kv.rs:148-185), entered with struct s and directory d
CompactCrashes(s, d) ==
    LET a == compact_new_active(s, d)
        c1 == compact_new_compaction(a, compaction_gen(s))
        keys == IndexKeys(c1.kv.index)
        c2 == compact_copy(c1, keys, Len(keys))
        c3 == compact_flush(c2)
        whole == {compact_copy(c1, keys, n).new_pos : n \in 0..Len(keys)}
    IN  {[at |-> "new_active", disk |-> a.disk],
         [at |-> "new_compaction", disk |-> c1.disk]}
        \cup {[at |-> IF m \in whole THEN "copied" ELSE "copied_partial",
               disk |-> PartialFlush(c2.cw, c2.disk, m)] : m \in 1..Len(c2.cw.buf)}
        \cup {[at |-> "removed", disk |-> compact_remove(c3, S).disk] :
                   S \in SUBSET stale_gens(c3) \ {{}}}

\* inside the write and flush of a record (kv.rs:80-81, 132-133): s1 is the
\* struct with the record in the writer's buffer
WriteCrashes(s1, d) ==
    {[at |-> "before_write", disk |-> d],
     [at |-> "flushed", disk |-> flush_disk(s1.writer, d)]}
    \cup {[at |-> "partial", disk |-> PartialFlush(s1.writer, d, m)] :
               m \in 1..Len(s1.writer.buf) - 1}

\* the process dies inside set(key, value)
CrashInSet(key, value) ==
    /\ status = "open"
    /\ ops < MaxOps
    /\ faults < MaxFaults
    /\ LET pos == kv.writer.pos
           s1 == set_write(kv, key, value)
           d2 == flush_disk(s1.writer, disk)
           s3 == set_index([s1 EXCEPT !.writer = flush_writer(@)], key, pos)
           done == set(kv, disk, key, value, threshold)
           inWrite == {[at |-> c.at, disk |-> c.disk, before |-> GetAll(kv, disk)] :
                          c \in WriteCrashes(s1, disk)}
           inCompact == IF s3.canbe_compacted > threshold
                        THEN {[at |-> c.at, disk |-> c.disk, before |-> GetAll(s3, d2)] :
                                 c \in CompactCrashes(s3, d2)}
                        ELSE {}
       IN  \E c \in inWrite \cup inCompact :
               /\ disk' = c.disk
               /\ last' = [op |-> "crash", in |-> "set", at |-> c.at, before |-> c.before,
                           after |-> GetAll(done.kv, done.disk)]
               /\ made' = Made(made, IF c \in inWrite THEN <<>>
                                      ELSE CreatedIn(done.created, c.disk))
    /\ status' = "closed"
    /\ kv' = NoKv
    /\ infKv' = NoKv
    /\ ops' = ops + 1
    /\ faults' = faults + 1
    /\ UNCHANGED <<threshold, ref, infDisk, ncompact>>

\* the process dies inside remove(key) of a key of the index
CrashInRemove(key) ==
    /\ status = "open"
    /\ ops < MaxOps
    /\ faults < MaxFaults
    /\ key \in DOMAIN kv.index
    /\ LET s1 == remove_write(kv, key)
           done == remove(kv, disk, key)
       IN  \E c \in WriteCrashes(s1, disk) :
               /\ disk' = c.disk
               /\ last' = [op |-> "crash", in |-> "remove", at |-> c.at,
                           before |-> GetAll(kv, disk),
                           after |-> GetAll(done.kv, done.disk)]
    /\ made' = Made(made, <<>>)
    /\ status' = "closed"
    /\ kv' = NoKv
    /\ infKv' = NoKv
    /\ ops' = ops + 1
    /\ faults' = faults + 1
    /\ UNCHANGED <<threshold, ref, infDisk, ncompact>>

NextCrash ==
    \/ Next
    \/ \E key \in Keys, value \in Values : CrashInSet(key, value)
    \/ \E key \in Keys : CrashInRemove(key)

SpecCrash == Init /\ [][NextCrash]_vars

\* --------------------------------------------------------- I/O errors
\* A call returns an I/O error (the ? of kv.rs:80-81, 96, 132-133, 152-179).
\* Each element is a place the error can happen at, with the struct and the
\* directory the call leaves behind.

\* d, with a file of generation gen if create made one before the error
MaybeCreated(d, gen) == {d, IF gen \in DOMAIN d THEN d ELSE MapPut(d, gen, <<>>)}

\* writing or flushing the record bytes fails: the writer has taken the first
\* n bytes, or all of them with the first j bytes of its buffer in the file
WriteFailures(s, d, bytes) ==
    LET w == write(s.writer, bytes)
    IN  {[at |-> "write",
          kv |-> [s EXCEPT !.writer = write(@, SubSeq(bytes, 1, n))],
          disk |-> d] : n \in 0..Len(bytes) - 1}
        \cup {[at |-> "flush",
               kv |-> [s EXCEPT !.writer = [w EXCEPT !.buf = SubSeq(@, j + 1, Len(@))]],
               disk |-> PartialFlush(w, d, j)] : j \in 0..Len(w.buf) - 1}

\* inside compact, entered with struct s and directory d.  The compaction
\* writer is dropped when the error is returned, which flushes its buffer if
\* it can: any prefix of the buffer may be in the compaction file.
CompactFailures(s, d) ==
    LET bumped == [s EXCEPT !.current_gen = @ + 2]
        a == compact_new_active(s, d)
        c1 == compact_new_compaction(a, compaction_gen(s))
        keys == IndexKeys(c1.kv.index)
        all == compact_copy(c1, keys, Len(keys))
        c3 == compact_flush(all)
    IN  {[at |-> "new_active", kv |-> bumped, disk |-> d2] :
                d2 \in MaybeCreated(d, bumped.current_gen)}
        \cup {[at |-> "new_compaction", kv |-> a.kv, disk |-> d2] :
                   d2 \in MaybeCreated(a.disk, compaction_gen(s))}
        \cup (IF all.panic THEN {} ELSE
              UNION {LET done == compact_copy(c1, keys, n - 1)
                         turn == compact_copy(c1, keys, n)
                     IN  {[at |-> "copy", kv |-> done.kv,
                           disk |-> PartialFlush(turn.cw, done.disk, m)] :
                              m \in 0..Len(turn.cw.buf) - 1} : n \in 1..Len(keys)}
              \cup {[at |-> "flush_compaction", kv |-> all.kv,
                     disk |-> PartialFlush(all.cw, all.disk, m)] :
                        m \in 0..Len(all.cw.buf)}
              \cup UNION {{[at |-> "remove_file",
                            kv |-> [compact_remove(c3, S).kv EXCEPT !.readers = @ \ {g}],
                            disk |-> compact_remove(c3, S).disk] :
                               S \in SUBSET (stale_gens(c3) \ {g})} : g \in stale_gens(c3)})

\* set(key, value) returns an I/O error
SetFail(key, value) ==
    /\ status = "open"
    /\ ops < MaxOps
    /\ faults < MaxFaults
    /\ LET pos == kv.writer.pos
           s1 == set_write(kv, key, value)
           d2 == flush_disk(s1.writer, disk)
           s3 == set_index([s1 EXCEPT !.writer = flush_writer(@)], key, pos)
           inWrite == {[at |-> f.at, kv |-> f.kv, disk |-> f.disk, ref |-> ref] :
                          f \in WriteFailures(kv, disk, to_writer(Command_set(key, value)))}
           inCompact == IF s3.canbe_compacted > threshold
                        THEN {[at |-> f.at, kv |-> f.kv, disk |-> f.disk,
                               ref |-> MapPut(ref, key, value)] :
                                 f \in CompactFailures(s3, d2)}
                        ELSE {}
       IN  \E f \in inWrite \cup inCompact :
               /\ kv' = f.kv
               /\ disk' = f.disk
               /\ ref' = f.ref
               /\ last' = [op |-> "set_err", key |-> key, at |-> f.at]
               /\ made' = Made(made, IF f \in inWrite THEN <<>>
                                      ELSE CreatedIn(compact_creates(s3, d2), f.disk))
    /\ ops' = ops + 1
    /\ faults' = faults + 1
    /\ UNCHANGED <<status, threshold, infKv, infDisk, ncompact>>

\* remove(key) of a key of the index returns an I/O error
RemoveFail(key) ==
    /\ status = "open"
    /\ ops < MaxOps
    /\ faults < MaxFaults
    /\ key \in DOMAIN kv.index
    /\ \E f \in WriteFailures(kv, disk, to_writer(Command_remove(key))) :
           /\ kv' = f.kv
           /\ disk' = f.disk
           /\ last' = [op |-> "remove_err", key |-> key, at |-> f.at]
    /\ made' = Made(made, <<>>)
    /\ ops' = ops + 1
    /\ faults' = faults + 1
    /\ UNCHANGED <<status, threshold, ref, infKv, infDisk, ncompact>>

NextIO ==
    \/ Next
    \/ \E key \in Keys, value \in Values : SetFail(key, value)
    \/ \E key \in Keys : RemoveFail(key)

SpecIO == Init /\ [][NextIO]_vars

\* crashes and I/O errors in one run
NextFaults ==
    \/ NextCrash
    \/ \E key \in Keys, value \in Values : SetFail(key, value)
    \/ \E key \in Keys : RemoveFail(key)

SpecFaults == Init /\ [][NextFaults]_vars

\* ------------------------------------------------------------- claims
\* a record of the key is in some file
HasRecord(d, tag, key) ==
    \E g \in DOMAIN d : \E i \in 1..Len(d[g]) - 1 : d[g][i] = tag /\ d[g][i + 1] = key

\* C1: on a store opened on an empty directory, after any sequence of set, get
\* and remove (compactions included), get(k) answers what the reference map
\* answers: Some(v) of the latest set not followed by a successful remove, else
\* None.
C1_GetMatchesReferenceMap ==
    status = "open" => \A k \in Keys : get(kv, disk, k) = RefGet(ref, k)

\* a get answers Some after two compactions, with the other key removed
C1_Witness ==
    /\ status = "open"
    /\ \E k \in Keys : get(kv, disk, k) = Some(<<"x", "y">>)
    /\ ncompact >= 2
    /\ \E k \in Keys : k \notin DOMAIN ref /\ HasRecord(infDisk, "R", k)

\* C2: releasing the store and opening the directory again succeeds and gives
\* an index with the same keys, and the same get on every key, as just before.
C2_RestartEquivalence ==
    (last.op = "open" /\ last.prev.op = "close") =>
        /\ last.ok
        /\ DOMAIN kv.index = last.prev.keys
        /\ GetAll(kv, disk) = last.prev.gets

\* a reopen after a compaction, with one key present and the other removed
C2_Witness ==
    /\ last.op = "open" /\ last.prev.op = "close"
    /\ ncompact >= 1
    /\ kv.index # EmptyMap
    /\ \E k \in Keys : k \notin DOMAIN kv.index /\ HasRecord(infDisk, "R", k)

\* C3: with any threshold the store answers every get as the store that made
\* the same calls and never compacted.
C3_CompactionInvariance ==
    status = "open" => GetAll(kv, disk) = GetAll(infKv, infDisk)

\* two compactions ran here and none there, and a key is present
C3_Witness ==
    /\ status = "open"
    /\ ncompact >= 2
    /\ DOMAIN infDisk = {1}
    /\ \E k \in Keys : get(kv, disk, k).tag = "Some"

\* C4: remove of a key that is not in the index fails with KeyNotFound and
\* changes neither the files nor the struct (index, canbe_compacted,
\* current_gen, writer).
C4_RemoveMissingChangesNothing ==
    (last.op = "remove" /\ last.key \notin DOMAIN last.kv.index) =>
        /\ ~last.ok
        /\ kv = last.kv
        /\ disk = last.disk

\* the key was removed by an earlier remove, whose record is in the log
C4_Witness ==
    /\ last.op = "remove" /\ ~last.ok
    /\ HasRecord(disk, "R", last.key)

\* C9: after a set whose compaction completed there are exactly two
\* generation files, on disk and in the reader set: the compaction file and
\* the new active file, which is empty; every index entry names the
\* compaction generation; no generation below it is left.
C9_TwoGenerationsAfterCompaction ==
    (last.op = "set" /\ last.compacted /\ status = "open") =>
        /\ DOMAIN disk = {kv.current_gen - 1, kv.current_gen}
        /\ kv.readers = {kv.current_gen - 1, kv.current_gen}
        /\ disk[kv.current_gen] = <<>>
        /\ \A k \in DOMAIN kv.index : kv.index[k].gen = kv.current_gen - 1

\* a compaction that started with three generation files
C9_Witness ==
    /\ last.op = "set" /\ last.compacted /\ status = "open"
    /\ Cardinality(last.files) >= 3
    /\ kv.index # EmptyMap

\* C10: the active generation, the one the writer appends to, has a file and
\* its number is greater than that of every other generation file.
C10_ActiveGenIsGreatest ==
    status = "open" =>
        /\ kv.writer.gen = kv.current_gen
        /\ kv.current_gen \in DOMAIN disk
        /\ \A g \in DOMAIN disk \ {kv.current_gen} : g < kv.current_gen

\* after a compaction and a reopen, with three files in the directory
C10_Witness ==
    /\ status = "open"
    /\ ncompact >= 1
    /\ Cardinality(DOMAIN disk) >= 3

\* C5: after a death inside compaction that left only whole records (the new
\* active file created, the compaction file created, some records copied,
\* some stale files deleted), open succeeds and every get is what it was
\* when the compaction started.
C5_CrashInCompactionRecoverable ==
    (/\ last.op = "open" /\ last.prev.op = "crash"
     /\ last.prev.at \in {"new_active", "new_compaction", "copied", "removed"}) =>
        /\ last.ok
        /\ GetAll(kv, disk) = last.prev.before

\* C6: after a death that cut the last record of a file short, open succeeds
\* and every get is what the complete records give.
C6_TruncatedTailTolerated ==
    (/\ last.op = "open" /\ last.prev.op = "crash"
     /\ last.prev.at \in {"partial", "copied_partial"}) =>
        /\ last.ok
        /\ GetAll(kv, disk) = last.prev.before

\* C7: after a death inside set or remove with the whole record flushed and
\* the index not yet updated, open succeeds and every get is what the
\* completed call gives; with no byte of the record in the file, every get
\* is what it was before the call.
C7_CrashAtomicity ==
    (last.op = "open" /\ last.prev.op = "crash") =>
        /\ last.prev.at = "flushed" =>
               last.ok /\ GetAll(kv, disk) = last.prev.after
        /\ last.prev.at = "before_write" =>
               last.ok /\ GetAll(kv, disk) = last.prev.before

\* a reopen after a death with the record flushed, where the call changes a get
C7_Witness ==
    /\ last.op = "open" /\ last.prev.op = "crash"
    /\ last.prev.at = "flushed"
    /\ last.prev.in = "remove"
    /\ last.prev.after # last.prev.before
    /\ ncompact >= 1

\* the entry of key names a generation with a reader and a file, and a byte
\* range holding exactly one Set record of key
EntryHoldsSet(s, d, key) ==
    LET e == s.index[key]
    IN  /\ e.gen \in s.readers
        /\ e.gen \in DOMAIN d
        /\ LET bytes == Slice(d[e.gen], e.pos, e.pos + e.len)
               r == Decode(bytes, 0)
           IN  r.ok /\ r.end = Len(bytes) /\ r.cmd.type = "Set" /\ r.cmd.key = key

\* C8: after set or remove returned an I/O error, and from then on, every
\* index entry names a generation with a reader and a byte range holding a
\* Set record of its key, and the writer appends to the file of current_gen,
\* the generation that the entry of the next set names.
C8_IoFailureLeavesStateConsistent ==
    (status = "open" /\ faults > 0) =>
        /\ \A k \in DOMAIN kv.index : EntryHoldsSet(kv, disk, k)
        /\ kv.writer.gen = kv.current_gen

\* C11: between calls, every index entry names an existing generation file and
\* a byte range of it that holds exactly one complete Set record of the
\* entry's key, so get of a key of the index fails neither with
\* UnexpectedCommandType nor with a decode error.
C11_IndexEntriesHoldSetRecords ==
    status = "open" =>
        \A k \in DOMAIN kv.index :
            /\ EntryHoldsSet(kv, disk, k)
            /\ get(kv, disk, k).tag \notin {"UnexpectedCommandType", "Decode"}

\* after a compaction: one entry in the compaction file, another in a later
\* file behind an earlier record
C11_Witness ==
    /\ status = "open"
    /\ ncompact >= 1
    /\ \E j, k \in DOMAIN kv.index : /\ kv.index[j].gen < kv.index[k].gen
                                     /\ kv.index[k].pos > 0

\* the sum of f over the set S
RECURSIVE SumOver(_, _)
SumOver(f, S) ==
    IF S = {} THEN 0
    ELSE LET x == CHOOSE y \in S : TRUE IN f[x] + SumOver(f, S \ {x})

\* the size of all generation files together
TotalBytes(d) == SumOver([g \in DOMAIN d |-> Len(d[g])], DOMAIN d)
\* the lengths of the records the index references, together
LiveBytes(s) == SumOver([k \in DOMAIN s.index |-> s.index[k].len], DOMAIN s.index)
\* the bytes of the logs no index entry references
DeadBytes(s, d) == TotalBytes(d) - LiveBytes(s)

\* C12: between calls canbe_compacted is at least the number of dead bytes of
\* the logs: the size of all generation files minus the lengths of the
\* records the index references.
C12_CounterBoundsDeadBytes ==
    status = "open" => kv.canbe_compacted >= DeadBytes(kv, disk)

\* C13: right after a set whose compaction completed, the generation files
\* together hold as many bytes as the lengths of the records the index
\* references add up to; the active file is empty and no Remove record is
\* left in any file.
C13_SizeAfterCompaction ==
    (last.op = "set" /\ last.compacted /\ status = "open") =>
        /\ TotalBytes(disk) = LiveBytes(kv)
        /\ disk[kv.current_gen] = <<>>
        /\ \A k \in Keys : ~HasRecord(disk, "R", k)

\* a compaction that dropped a Remove record and kept a Set record
C13_Witness ==
    /\ last.op = "set" /\ last.compacted /\ status = "open"
    /\ LiveBytes(kv) > 0
    /\ \E k \in Keys : HasRecord(infDisk, "R", k)

\* what the recovery scans of the files gen_list[i..] of d return, added up:
\* the lengths of the Set records superseded or removed later in the scan
\* and of the Remove records
RECURSIVE ScannedDead(_, _, _, _)
ScannedDead(d, gen_list, i, index) ==
    IF i > Len(gen_list) THEN 0
    ELSE LET r == build_index_from_log(gen_list[i], d[gen_list[i]], index)
         IN  r.canbe_compacted + ScannedDead(d, gen_list, i + 1, r.index)

\* C14: the store open returns has canbe_compacted equal to what the recovery
\* scans of the generation files returned, added up (the new active file is
\* empty and adds nothing).
C14_OpenAccumulatesFromScan ==
    (last.op = "open" /\ last.ok) =>
        kv.canbe_compacted = ScannedDead(disk, sorted_gen_list(disk), 1, EmptyMap)

\* the lengths of the entries of the first n keys of keys, added up
RECURSIVE LenBefore(_, _, _)
LenBefore(index, keys, n) ==
    IF n = 0 THEN 0 ELSE index[keys[n]].len + LenBefore(index, keys, n - 1)

\* C15: a set whose compaction completes leaves the index with the keys it had
\* when the compaction started (those before the call and the key set) and
\* with every entry's length; each entry names the compaction file, whose
\* bytes in the entry's range are the bytes the entry named before; the
\* ranges start at 0 and follow each other without gap in the order of the
\* keys, and the compaction file ends where the last one ends.
C15_CompactionMovesRecordsOnly ==
    [][(last'.op = "set" /\ last'.compacted /\ status' = "open") =>
        LET key == last'.key
            cgen == kv.current_gen + 1
            was(k) == IF k = key
                      THEN to_writer(Command_set(k, ref'[k]))
                      ELSE Slice(disk[kv.index[k].gen], kv.index[k].pos,
                                 kv.index[k].pos + kv.index[k].len)
            keys == IndexKeys(kv'.index)
        IN  /\ DOMAIN kv'.index = DOMAIN kv.index \cup {key}
            /\ \A k \in DOMAIN kv'.index :
                   LET e == kv'.index[k]
                   IN  /\ e.gen = cgen
                       /\ e.len = Len(was(k))
                       /\ k # key => e.len = kv.index[k].len
                       /\ Slice(disk'[cgen], e.pos, e.pos + e.len) = was(k)
            /\ \A i \in 1..Len(keys) :
                   kv'.index[keys[i]].pos = LenBefore(kv'.index, keys, i - 1)
            /\ Len(disk'[cgen]) = LenBefore(kv'.index, keys, Len(keys))
      ]_vars

\* after a compaction that copied two records of different lengths, the
\* second one behind the first
C15_Witness ==
    /\ last.op = "set" /\ last.compacted /\ status = "open"
    /\ DOMAIN kv.index = Keys
    /\ kv.index["a"].len # kv.index["b"].len
    /\ kv.index["b"].pos = kv.index["a"].len

\* a is the beginning of b
IsPrefix(a, b) == Len(a) <= Len(b) /\ SubSeq(b, 1, Len(a)) = a

\* C16: a remove and a set that does not compact leave the set of generation
\* files as it is and append only to the file of the active generation (get
\* changes nothing at all); an open creates exactly one file, empty, under a
\* number no file has; a file disappears only in a set that compacts; the
\* content of a file that is not the active one never changes while the file
\* exists.
C16_GenerationFileLifecycle ==
    [][LET active == IF status = "open" THEN {kv.current_gen} ELSE {}
           compacts == last'.op = "set" /\ last'.compacted
       IN  /\ \A g \in DOMAIN disk \cap DOMAIN disk' :
                  IF g \in active THEN IsPrefix(disk[g], disk'[g])
                  ELSE disk'[g] = disk[g]
           /\ (last'.op \in {"remove", "set", "close"} /\ ~compacts) =>
                  DOMAIN disk' = DOMAIN disk
           /\ last'.op = "open" =>
                  \E g \in DOMAIN disk' \ DOMAIN disk :
                      /\ DOMAIN disk' = DOMAIN disk \cup {g}
                      /\ disk'[g] = <<>>
           /\ DOMAIN disk \ DOMAIN disk' # {} => compacts
      ]_vars

\* a key removed from a store with two files that are not the active one,
\* left by a compaction and a reopen
C16_Witness ==
    /\ last.op = "remove" /\ last.ok
    /\ ncompact >= 1
    /\ Cardinality(DOMAIN disk \ {kv.current_gen}) >= 2

\* C17: a set compacts exactly when canbe_compacted, with the length of the
\* entry the set replaced added, is greater than the threshold; the compaction
\* (seen by current_gen going up by 2) leaves the counter 0, so the counter is
\* at most the threshold after every set; no other call compacts: remove,
\* open and release delete no file and leave current_gen and the number of
\* compactions as they are, and remove never lowers the counter.
C17_CompactionTrigger ==
    [][/\ last'.op = "set" =>
              LET counted == kv.canbe_compacted +
                                 (IF last'.key \in DOMAIN kv.index
                                  THEN kv.index[last'.key].len ELSE 0)
                  ran == kv'.current_gen = kv.current_gen + 2
              IN  /\ ran <=> counted > threshold
                  /\ ran <=> ncompact' = ncompact + 1
                  /\ ran => kv'.canbe_compacted = 0
                  /\ ~ran => /\ kv'.canbe_compacted = counted
                             /\ kv'.current_gen = kv.current_gen
                  /\ kv'.canbe_compacted <= threshold
       /\ last'.op # "set" =>
              /\ ncompact' = ncompact
              /\ DOMAIN disk \subseteq DOMAIN disk'
       /\ last'.op = "remove" =>
              /\ kv'.current_gen = kv.current_gen
              /\ kv'.canbe_compacted >= kv.canbe_compacted
      ]_vars

\* a remove made with the counter equal to the threshold, which a set left
\* there without compacting, leaves it above the threshold
C17_Witness ==
    /\ last.op = "remove" /\ last.ok
    /\ last.kv.canbe_compacted = threshold
    /\ kv.canbe_compacted > threshold

\* C18: no call panics: between calls every index entry names a generation
\* that has a reader and a file, so the lookups of get ("Cannot find log msg")
\* and of compact ("Cannot find log reader") find their reader, and a remove
\* that goes on to take the key out of the index ("key not found") was made
\* with the key in the index.
C18_ReaderLookupsSucceed ==
    /\ status # "panicked"
    /\ status = "open" =>
           \A k \in DOMAIN kv.index :
               /\ kv.index[k].gen \in kv.readers
               /\ kv.index[k].gen \in DOMAIN disk
               /\ get(kv, disk, k).tag # "Panic"
    /\ (last.op = "remove" /\ last.ok) => last.key \in DOMAIN last.kv.index

\* after a compaction, a remove that left a key whose entry names the
\* compaction file
C18_Witness ==
    /\ status = "open"
    /\ last.op = "remove" /\ last.ok
    /\ ncompact >= 1
    /\ \E k \in DOMAIN kv.index : kv.index[k].gen < kv.current_gen

\* C19 as stated: every file that a call creates (open, or a compaction,
\* completed or not) gets a number no file has at that moment, greater than
\* every number a file was created with earlier, in earlier calls and earlier
\* in the same call.
C19_NumbersOnlyGrow ==
    \A i \in DOMAIN made.new :
        /\ made.new[i].fresh
        /\ made.new[i].gen > made.used
        /\ \A j \in 1..(i - 1) : made.new[i].gen > made.new[j].gen

\* C19, amended: every file that a call creates gets a number no file has at
\* that moment (so the file starts empty and a writer on it counts true
\* offsets from 0), greater than every number a file was created with before
\* the call, and different from the other number of the same call.
C19_NumbersNeverReused ==
    \A i \in DOMAIN made.new :
        /\ made.new[i].fresh
        /\ made.new[i].gen > made.used
        /\ \A j \in 1..(i - 1) : made.new[i].gen # made.new[j].gen

\* a compaction that completed, in a store opened after a crash or after a
\* call that failed
C19_Witness ==
    /\ status = "open"
    /\ faults > 0
    /\ Len(made.new) = 2
    /\ made.used >= 3

====
